---- MODULE Spec2Model ----
(***************************************************************************)
(* Model of the offer-ranking service of src/app.py: the start-up loads    *)
(* (catalog, trained artifact), the /chat handler (name match, offer       *)
(* flattening, infer_topk, response formatting) and infer_topk itself as   *)
(* a function of a DataFrame.                                              *)
(*                                                                         *)
(* Representation                                                          *)
(*  - a string that the code inspects character by character (the chat     *)
(*    message, a product name) is a sequence of one-character strings;     *)
(*  - a DataFrame is the sequence of its rows; a row is a record of the    *)
(*    columns that reach the scoring or the response (seller_name, price,  *)
(*    rating, delivery_in_days, and _pred_score as pred_score); a Python   *)
(*    None and a pandas NaN are both the cell NaN;                         *)
(*  - ratings are held in tenths (4.5 is 45);                              *)
(*  - a score is an exact fraction [num, den] of natural numbers, each a   *)
(*    little-endian sequence of base-Base digits, so that 1e-6 of the      *)
(*    fallback formula is kept exactly.  The code computes in float64;     *)
(*    prices, ratings and delivery times are non-negative in the model.    *)
(***************************************************************************)
EXTENDS Integers, Sequences, FiniteSets, TLC

\* A missing numeric cell (a Python None or a pandas NaN) and a missing object
\* (the None that preproc and model are set to).
NaN == -1
None == [none |-> TRUE]

(***************************************************************************)
(* Evaluation.  TLC evaluates an operator's argument and a LET definition  *)
(* again at every use; Eval(e, F) is F(e) with e evaluated once, and the   *)
(* recursive arithmetic below is written as functions, whose arguments are *)
(* values.                                                                 *)
(***************************************************************************)
Eval(e, F(_)) == CHOOSE r \in {F(x) : x \in {e}} : TRUE

\* The sequence f, with its elements evaluated.
Tuple(f) == SubSeq(f, 1, Len(f))

(***************************************************************************)
(* Exact natural-number arithmetic on digit sequences.                     *)
(***************************************************************************)
Base == 10^4

Big[n \in Nat] == IF n = 0 THEN <<>> ELSE <<n % Base>> \o Big[n \div Base]

AddC[a \in Seq(Nat), b \in Seq(Nat), c \in Nat] ==
    IF a = <<>> /\ b = <<>>
    THEN (IF c = 0 THEN <<>> ELSE <<c>>)
    ELSE LET x == IF a = <<>> THEN 0 ELSE Head(a)
             y == IF b = <<>> THEN 0 ELSE Head(b)
         IN  <<(x + y + c) % Base>>
             \o AddC[IF a = <<>> THEN a ELSE Tail(a),
                     IF b = <<>> THEN b ELSE Tail(b),
                     (x + y + c) \div Base]

BigAdd(a, b) == AddC[a, b, 0]

MulDigit[a \in Seq(Nat), d \in Nat, c \in Nat] ==
    IF a = <<>>
    THEN (IF c = 0 THEN <<>> ELSE <<c>>)
    ELSE <<(Head(a) * d + c) % Base>>
         \o MulDigit[Tail(a), d, (Head(a) * d + c) \div Base]

Trim[a \in Seq(Nat)] ==
    IF a = <<>> THEN a
    ELSE IF a[Len(a)] = 0 THEN Trim[SubSeq(a, 1, Len(a) - 1)] ELSE a

BigMul[a \in Seq(Nat), b \in Seq(Nat)] ==
    IF b = <<>> \/ a = <<>> THEN <<>>
    ELSE Trim[AddC[MulDigit[a, Head(b), 0], <<0>> \o BigMul[a, Tail(b)], 0]]

LessFromTop[a \in Seq(Nat), b \in Seq(Nat), i \in Nat] ==
    IF i = 0 THEN FALSE
    ELSE IF a[i] # b[i] THEN a[i] < b[i]
    ELSE LessFromTop[a, b, i - 1]

LessTrimmed[x \in Seq(Nat), y \in Seq(Nat)] ==
    IF Len(x) # Len(y) THEN Len(x) < Len(y) ELSE LessFromTop[x, y, Len(x)]

BigLess(a, b) == LessTrimmed[Trim[a], Trim[b]]

Mul3(a, b, c) == BigMul[BigMul[a, b], c]

\* Order and equality of two scores, each a fraction num/den with den > 0
\* (by cross-multiplication, which equal denominators do not need).
ScoreLess(s, t) ==
    IF s.den = t.den THEN BigLess(s.num, t.num)
    ELSE BigLess(BigMul[s.num, t.den], BigMul[t.num, s.den])
ScoreEq(s, t) == ~ScoreLess(s, t) /\ ~ScoreLess(t, s)

(***************************************************************************)
(* infer_topk (src/app.py 64-93).                                          *)
(***************************************************************************)
\* The constants of the fallback formula: 1e-6 is 1/EpsInv, the weights    
\* 0.4, 0.3, 0.3 are in tenths, the rating scale is 5 and ratings are held 
\* in tenths.
EpsInv == 10^6
WPrice == 4
WRating == 3
WDelivery == 3
RatingScale == 5
DefaultPrice == 1
DefaultRating == 0
DefaultDelivery == 3

Min(a, b) == IF a < b THEN a ELSE b

\* Defect: the maxima of the whole catalogue instead of the batch.
ColMax_Catalog(df, col) == IF col = "price" THEN 1000 ELSE 5

\* Series.max() of a column without missing values (NaN on an empty frame).
ColMax(df, col) ==
    IF Len(df) = 0 THEN NaN
    ELSE CHOOSE m \in {df[i][col] : i \in 1..Len(df)} :
             \A i \in 1..Len(df) : df[i][col] <= m

\* pd.to_numeric(column).fillna(d) on one cell.
fillna(v, d) == IF v = NaN THEN d ELSE v

\* Defect: a missing price filled with 0.
FillDefaults_ZeroPrice(df) ==
    [i \in 1..Len(df) |->
        [df[i] EXCEPT !.price = IF @ = NaN THEN 0 ELSE @,
                      !.rating = IF @ = NaN THEN 0 ELSE @,
                      !.delivery_in_days = IF @ = NaN THEN 3 ELSE @]]

\* Lines 69-71: the three columns are overwritten in place.
FillDefaults(df) ==
    [i \in 1..Len(df) |->
        [df[i] EXCEPT !.price = fillna(@, DefaultPrice),
                      !.rating = fillna(@, DefaultRating),
                      !.delivery_in_days = fillna(@, DefaultDelivery)]]

\* Defect: the rating term left out of the formula.
FallbackFormula_NoRating(row, mp, md) ==
    LET Pd == mp * EpsInv + 1
        Dd == md * EpsInv + 1
        RS == 10 * RatingScale
        priceTerm == Mul3(Big[WPrice * RS], Big[Pd - row.price * EpsInv], Big[Dd])
        delivTerm == Mul3(Big[WDelivery * RS], Big[Dd - row.delivery_in_days * EpsInv], Big[Pd])
    IN  [num |-> BigAdd(priceTerm, delivTerm),
         den |-> Mul3(Big[10 * RS], Big[Pd], Big[Dd])]

\* Lines 73-77 for one row, given the batch maxima:
\*   0.4*(1 - p/(mp + 1e-6)) + 0.3*(r/5) + 0.3*(1 - d/(md + 1e-6))
\* over the common denominator 10 * (10*RatingScale) * Pd * Dd, where
\* Pd = mp*EpsInv + 1 and Dd = md*EpsInv + 1.
FallbackFormula(row, mp, md) ==
    LET Pd == mp * EpsInv + 1
        Dd == md * EpsInv + 1
        RS == 10 * RatingScale
        priceTerm == Mul3(Big[WPrice * RS], Big[Pd - row.price * EpsInv], Big[Dd])
        ratingTerm == Mul3(Big[WRating * row.rating], Big[Pd], Big[Dd])
        delivTerm == Mul3(Big[WDelivery * RS], Big[Dd - row.delivery_in_days * EpsInv], Big[Pd])
    IN  [num |-> BigAdd(BigAdd(priceTerm, ratingTerm), delivTerm),
         den |-> Mul3(Big[10 * RS], Big[Pd], Big[Dd])]

\* Defect: the price column overwritten with its distance to the maximum.
FallbackScore_InPlace(df) ==
    LET f == FillDefaults(df)
        mp == ColMax(f, "price")
        md == ColMax(f, "delivery_in_days")
    IN  [i \in 1..Len(f) |->
            [f[i] EXCEPT !.pred_score = FallbackFormula(f[i], mp, md),
                         !.price = mp - f[i].price]]

\* Lines 66-77: the fallback branch; returns the DataFrame as it is left.
FallbackScore(df) ==
    LET f == FillDefaults(df)
        mp == ColMax(f, "price")
        md == ColMax(f, "delivery_in_days")
    IN  [i \in 1..Len(f) |->
            [f[i] EXCEPT !.pred_score = FallbackFormula(f[i], mp, md)]]

\* preproc.transform on one cell of a numeric column: the median imputer of
\* the fitted preprocessor (src/train_and_rank.py 91-94) fills a missing cell
\* with the training median held in the artifact.
Impute(v, median) == IF v = NaN THEN median ELSE v

\* model.predict on one transformed row.  The regressor is the content of the
\* artifact; the model draws it from a family of weighted sums of the
\* imputed columns.
Predict(preproc, model, row) ==
      model.w_rating * Impute(row.rating, preproc.median_rating)
    + model.w_price * Impute(row.price, preproc.median_price)
    + model.w_delivery * Impute(row.delivery_in_days, preproc.median_delivery)

\* Lines 79-91: the learned branch; the feature columns are left as they are.
LearnedScore(df, preproc, model) ==
    [i \in 1..Len(df) |->
        [df[i] EXCEPT !.pred_score =
            [num |-> Big[Predict(preproc, model, df[i])], den |-> Big[1]]]]

\* Line 65.
UseFallback(preproc, model) == preproc = None \/ model = None

\* Defect: ascending=False left out.
Before_Ascending(df, tie, i, j) ==
    \/ ScoreLess(df[i].pred_score, df[j].pred_score)
    \/ /\ ScoreEq(df[i].pred_score, df[j].pred_score)
       /\ tie[i] < tie[j]

\* DataFrame.sort_values("_pred_score", ascending=False) with the default
\* kind="quicksort": descending by score; pandas does not define the order of
\* rows with equal scores under this kind, so that order is the build's:
\* tie[i] is the priority the build's sort gives input position i among equal
\* scores (the identity is a stable sort).
Before(df, tie, i, j) ==
    \/ ScoreLess(df[j].pred_score, df[i].pred_score)
    \/ /\ ScoreEq(df[i].pred_score, df[j].pred_score)
       /\ tie[i] < tie[j]

sort_values(df, tie) ==
    LET n == Len(df)
        place(i) == 1 + Cardinality({j \in 1..n : Before(df, tie, j, i)})
    IN  [q \in 1..n |-> df[CHOOSE i \in 1..n : place(i) = q]]

\* DataFrame.head(k), k >= 0.
head(df, k) == SubSeq(df, 1, Min(k, Len(df)))

\* infer_topk(df, k): df is what the caller's DataFrame holds afterwards,
\* top is the returned frame.
infer_topk(df, k, preproc, model, tie) ==
    Eval(IF UseFallback(preproc, model)
         THEN Tuple(FallbackScore(df))
         ELSE Tuple(LearnedScore(df, preproc, model)),
         LAMBDA scored :
            [df |-> scored, top |-> head(sort_values(scored, tie), k)])

(***************************************************************************)
(* find_product_by_name (src/app.py 97-104) and the difflib functions it   *)
(* calls.  A string is a sequence of characters; Alphabet lists the        *)
(* characters of the model in code-point order.                            *)
(***************************************************************************)
Alphabet == <<" ", "c", "p", "t", "v", "x">>
Ord(c) == CHOOSE i \in 1..Len(Alphabet) : Alphabet[i] = c

\* str.strip(): leading and trailing blanks removed.
RECURSIVE lstrip(_)
lstrip(s) == IF s # <<>> /\ Head(s) = " " THEN lstrip(Tail(s)) ELSE s

RECURSIVE rstrip(_)
rstrip(s) ==
    IF s # <<>> /\ s[Len(s)] = " " THEN rstrip(SubSeq(s, 1, Len(s) - 1)) ELSE s

strip(s) == rstrip(lstrip(s))

\* Python's order on strings: x > y.
RECURSIVE StrGreater(_, _)
StrGreater(x, y) ==
    IF x = <<>> THEN FALSE
    ELSE IF y = <<>> THEN TRUE
    ELSE IF Head(x) # Head(y) THEN Ord(Head(x)) > Ord(Head(y))
    ELSE StrGreater(Tail(x), Tail(y))

\* SequenceMatcher.find_longest_match on a[alo..ahi-1], b[blo..bhi-1] (no
\* junk): <<i, j, k>> with a[i..i+k-1] = b[j..j+k-1], k maximal, then i
\* least, then j least; <<alo, blo, 0>> when nothing matches.
IsBlock(a, b, i, j, k) == \A d \in 0..(k - 1) : a[i + d] = b[j + d]

Better(m, n) ==
    \/ m[3] > n[3]
    \/ m[3] = n[3] /\ m[1] < n[1]
    \/ m[3] = n[3] /\ m[1] = n[1] /\ m[2] < n[2]

find_longest_match(a, b, alo, ahi, blo, bhi) ==
    Eval({m \in (alo..(ahi - 1)) \X (blo..(bhi - 1)) \X (1..(ahi - alo)) :
             /\ m[1] + m[3] <= ahi
             /\ m[2] + m[3] <= bhi
             /\ IsBlock(a, b, m[1], m[2], m[3])},
         LAMBDA blocks :
            IF blocks = {} THEN <<alo, blo, 0>>
            ELSE CHOOSE m \in blocks : \A n \in blocks \ {m} : Better(m, n))

\* The number of matched characters of get_matching_blocks: the longest
\* block, then the same to its left and to its right.
Matches[a \in Seq(STRING), b \in Seq(STRING), alo \in Nat, ahi \in Nat, blo \in Nat, bhi \in Nat] ==
    Eval(find_longest_match(a, b, alo, ahi, blo, bhi), LAMBDA m :
        IF m[3] = 0 THEN 0
        ELSE m[3] + Matches[a, b, alo, m[1], blo, m[2]]
                  + Matches[a, b, m[1] + m[3], ahi, m[2] + m[3], bhi])

\* SequenceMatcher(a, b).ratio() = 2.0 * M / T as the fraction <<2M, T>>
\* (1.0 when both are empty).
ratio(a, b) ==
    LET T == Len(a) + Len(b)
    IN  IF T = 0 THEN <<1, 1>>
        ELSE <<2 * Matches[a, b, 1, Len(a) + 1, 1, Len(b) + 1], T>>

\* cutoff=0.4, in tenths.
Cutoff == 4

\* Defect: the cutoff ignored.
get_close_matches_NoCutoff(word, possibilities) ==
    Eval(Tuple([i \in 1..Len(possibilities) |-> ratio(possibilities[i], word)]),
         LAMBDA ratios :
            LET ok == 1..Len(ratios)
                larger(i, j) ==
                    \/ ratios[i][1] * ratios[j][2] > ratios[j][1] * ratios[i][2]
                    \/ /\ ratios[i][1] * ratios[j][2] = ratios[j][1] * ratios[i][2]
                       /\ StrGreater(possibilities[i], possibilities[j])
            IN  IF ok = {} THEN <<>>
                ELSE LET best == CHOOSE i \in ok : \A j \in ok : ~larger(j, i)
                     IN  <<possibilities[best]>>)

\* get_close_matches(word, possibilities, n=1, cutoff=0.4): the possibility
\* with the largest (ratio, string) among those whose ratio reaches the
\* cutoff, as a list of at most one string.
get_close_matches(word, possibilities) ==
    Eval(Tuple([i \in 1..Len(possibilities) |-> ratio(possibilities[i], word)]),
         LAMBDA ratios :
            LET ok == {i \in 1..Len(ratios) : 10 * ratios[i][1] >= Cutoff * ratios[i][2]}
                larger(i, j) ==
                    \/ ratios[i][1] * ratios[j][2] > ratios[j][1] * ratios[i][2]
                    \/ /\ ratios[i][1] * ratios[j][2] = ratios[j][1] * ratios[i][2]
                       /\ StrGreater(possibilities[i], possibilities[j])
            IN  IF ok = {} THEN <<>>
                ELSE LET best == CHOOSE i \in ok : \A j \in ok : ~larger(j, i)
                     IN  <<possibilities[best]>>)

\* find_product_by_name(query): the product, or NoProduct for Python's None.
NoProduct == [none |-> TRUE]

find_product_by_name(products, query) ==
    LET all_names == [i \in 1..Len(products) |-> products[i].product_name]
    IN  IF all_names = <<>> THEN NoProduct
        ELSE Eval(get_close_matches(query, all_names), LAMBDA matches :
                IF matches = <<>> THEN NoProduct
                ELSE LET hits == {i \in 1..Len(products) :
                                     products[i].product_name = matches[1]}
                     IN  IF hits = {} THEN NoProduct
                         ELSE products[CHOOSE i \in hits : \A j \in hits : i <= j])

(***************************************************************************)
(* The /chat handler (src/app.py 126-199).                                 *)
(***************************************************************************)
\* dict.get(key, default).
Get(d, key, default) == IF key \in DOMAIN d THEN d[key] ELSE default

\* Lines 145-169: the row of one offer.  The DataFrame has no _pred_score
\* column yet (None).
OfferRow(product, offer) ==
    [product_name |-> product.product_name,
     seller_name |-> Get(offer, "seller_name", "None"),
     price |-> Get(offer, "price", NaN),
     rating |-> Get(offer, "rating", NaN),
     delivery_in_days |-> Get(offer, "delivery_in_days", NaN),
     pred_score |-> None]

\* Lines 141-169: one row per offer, in variant order, then offer order.
RECURSIVE FlattenVariants(_, _)
FlattenVariants(product, variants) ==
    IF variants = <<>> THEN <<>>
    ELSE LET offers == Get(Head(variants), "offers", <<>>)
         IN  [i \in 1..Len(offers) |-> OfferRow(product, offers[i])]
             \o FlattenVariants(product, Tail(variants))

Flatten(product) == FlattenVariants(product, Get(product, "variants", <<>>))

\* The k of line 177.
TopK == 3

\* Whether pandas holds the column as objects: pd.DataFrame(offers) keeps a
\* column whose every cell is None as Python objects and turns any other
\* numeric column into float64, where a missing cell is NaN.
AllMissing(df, col) == \A i \in 1..Len(df) : df[i][col] = NaN

\* Lines 186-187 raise on a NaN of a float64 column: NaN is truthy, int(NaN)
\* raises, and a NaN rating cannot be rendered as JSON.
FormatRaises(df, top) ==
    \E i \in 1..Len(top) :
        \/ top[i].price = NaN /\ ~AllMissing(df, "price")
        \/ top[i].rating = NaN /\ ~AllMissing(df, "rating")

\* Lines 183-191 for one record.  A price or rating that is None or 0 is
\* shown as "N/A".  The score is carried exactly (round(.., 3) is not
\* applied); the rating is in tenths, which round(.., 1) leaves as it is.
FormatRecord(p) ==
    [name |-> p.product_name,
     platform |-> p.seller_name,
     price |-> IF p.price = NaN \/ p.price = 0 THEN <<"N/A">> ELSE <<"rupees", p.price>>,
     rating |-> IF p.rating = NaN \/ p.rating = 0 THEN <<"N/A">> ELSE <<"stars", p.rating>>,
     score |-> p.pred_score]

\* Defect: the check of line 171 left out.
NoOffers_Never(offers) == FALSE

\* Line 131, line 136 and line 171: the three early returns.
EmptyInput(user_input) == user_input = <<>>
NoMatch(product) == product = NoProduct
NoOffers(offers) == offers = <<>>

\* The handler after `await request.json()`: the response, and the calls made
\* on the way (find_product_by_name with what it returned, the flattening
\* loop, infer_topk with the number of rows it was given).
ChatBody(products, preproc, model, tie, data) ==
    Eval(strip(Get(data, "message", <<>>)), LAMBDA user_input :
    IF EmptyInput(user_input)
    THEN [response |-> [bot |-> <<"please_type">>, products |-> <<>>],
          calls |-> <<>>]
    ELSE
    Eval(find_product_by_name(products, user_input), LAMBDA product :
    LET found == <<"find_product_by_name", product>>
    IN
    IF NoMatch(product)
    THEN [response |-> [bot |-> <<"not_found", user_input>>, products |-> <<>>],
          calls |-> <<found>>]
    ELSE
    Eval(Flatten(product), LAMBDA offers :
    LET infer == <<"infer_topk", Len(offers)>>
    IN
    IF NoOffers(offers)
    THEN [response |-> [bot |-> <<"no_offers", product.product_name>>,
                        products |-> <<>>],
          calls |-> <<found, <<"flatten">>>>]
    ELSE
    Eval(infer_topk(offers, TopK, preproc, model, tie), LAMBDA ranked :
    IF FormatRaises(ranked.df, ranked.top)
    THEN [response |-> [bot |-> <<"internal_server_error">>, products |-> <<>>],
          calls |-> <<found, <<"flatten">>, infer>>]
    ELSE [response |-> [bot |-> <<"top3", product.product_name>>,
                        products |-> [i \in 1..Len(ranked.top) |->
                                         FormatRecord(ranked.top[i])]],
          calls |-> <<found, <<"flatten">>, infer>>]))))

(***************************************************************************)
(* Start-up (src/app.py 36-60).                                            *)
(***************************************************************************)
\* A file that cannot be opened or parsed.
Unreadable == [unreadable |-> TRUE]

\* load_dataset(): the "products" list of the JSON object, [] when the key
\* is absent or the file cannot be read.
load_dataset(file) ==
    IF file = Unreadable THEN <<>> ELSE Get(file, "products", <<>>)

\* Defect: the artifact never used.
LoadModel_Never(file) == [preproc |-> None, model |-> None]

\* Lines 52-60: preproc and model from the artifact; any exception (load
\* error, missing key) leaves both None.
LoadModel(file) ==
    IF file = Unreadable \/ ~("preproc" \in DOMAIN file) \/ ~("model" \in DOMAIN file)
    THEN [preproc |-> None, model |-> None]
    ELSE [preproc |-> file.preproc, model |-> file.model]

(***************************************************************************)
(* The inputs of the model: offers, catalog files, artifact files, request *)
(* bodies.                                                                 *)
(***************************************************************************)
O1 == [seller_name |-> "s1", price |-> 1000, rating |-> 45, delivery_in_days |-> 2]
O2 == [seller_name |-> "s2", price |-> 500, rating |-> 30, delivery_in_days |-> 5]
O3 == [seller_name |-> "s3", price |-> 500, rating |-> 30, delivery_in_days |-> 5]
O4 == [seller_name |-> "s4"]
O5 == [seller_name |-> "s5", price |-> 0, rating |-> 50, delivery_in_days |-> 0]
Offers == {O1, O2, O3, O4, O5}

NameTv == <<"t", "v">>
NamePc == <<"p", "c">>

\* Products: with offers in two variants, without the "variants" key, with
\* variants that hold no offers.
TvFull == [product_name |-> NameTv,
           variants |-> <<[variant_id |-> "v1", offers |-> <<O2, O1>>],
                          [variant_id |-> "v2", offers |-> <<O3, O4>>]>>]
TvTwins == [product_name |-> NameTv,
            variants |-> <<[variant_id |-> "v1", offers |-> <<O3>>],
                           [variant_id |-> "v2", offers |-> <<O2, O5>>]>>]
TvBare == [product_name |-> NameTv,
           variants |-> <<[variant_id |-> "v1", offers |-> <<>>],
                          [variant_id |-> "v2"]>>]
PcNoKey == [product_name |-> NamePc]
PcEmpty == [product_name |-> NamePc, variants |-> <<>>]

DataFiles ==
    {Unreadable,
     [products |-> <<>>],
     [products |-> <<PcNoKey, TvFull>>],
     [products |-> <<PcEmpty, TvTwins>>],
     [products |-> <<TvBare, TvTwins, PcNoKey>>]}

P1 == [median_price |-> 500, median_rating |-> 30, median_delivery |-> 3]
M0 == [w_rating |-> 0, w_price |-> 0, w_delivery |-> 0]
M1 == [w_rating |-> 1, w_price |-> 0, w_delivery |-> 1]

ArtifactFiles ==
    {Unreadable,
     [preproc |-> P1],
     [model |-> M1],
     [preproc |-> None, model |-> M1],
     [preproc |-> P1, model |-> M0],
     [preproc |-> P1, model |-> M1]}

Bodies ==
    {[other |-> <<>>],
     [message |-> <<" ">>],
     [message |-> <<" ", "t", "v">>],
     [message |-> <<"t", "c">>],
     [message |-> <<"p", "c">>],
     [message |-> <<"x">>]}

\* The orders a build's sort may give n rows of equal score.
TieOrders(n) ==
    {f \in [1..n -> 1..n] : \A i, j \in 1..n : f[i] = f[j] => i = j}

Max(a, b) == IF a < b THEN b ELSE a

RECURSIVE MaxRowsOf(_)
MaxRowsOf(products) ==
    IF products = <<>> THEN 0
    ELSE Max(Len(Flatten(Head(products))), MaxRowsOf(Tail(products)))

(***************************************************************************)
(* Bounds.                                                                 *)
(***************************************************************************)
NumReqs == 2
MaxRows == 3
MaxCalls == 2

Reqs == 1..NumReqs

(***************************************************************************)
(* State.                                                                  *)
(***************************************************************************)
VARIABLES
    pc,             \* "load_dataset", "load_model", "serving"; "rank" in SpecRank
    data_file,      \* the content of data/products.json
    artifact_file,  \* the content of xgb_ranking_pipeline.joblib
    tie,            \* the build's order of equal scores in sort_values
    products_data,  \* module global, line 48
    preproc,        \* module global, lines 54, 59
    model,          \* module global, lines 55, 60
    req,            \* per request: where the handler is, its body, its response
    rank            \* SpecRank: a DataFrame and the calls of infer_topk on it

vars == <<pc, data_file, artifact_file, tie, products_data, preproc, model, req, rank>>

Unset == [unset |-> TRUE]
Idle == [at |-> "idle"]
NoRank == [results |-> <<>>]

Init ==
    /\ pc = "load_dataset"
    /\ data_file \in DataFiles
    /\ artifact_file \in ArtifactFiles
    /\ tie \in TieOrders(MaxRowsOf(load_dataset(data_file)))
    /\ products_data = Unset
    /\ preproc = Unset
    /\ model = Unset
    /\ req = [r \in Reqs |-> Idle]
    /\ rank = NoRank

\* Line 48.
StartLoadDataset ==
    /\ pc = "load_dataset"
    /\ products_data' = load_dataset(data_file)
    /\ pc' = "load_model"
    /\ UNCHANGED <<data_file, artifact_file, tie, preproc, model, req, rank>>

\* Lines 52-60.
StartLoadModel ==
    /\ pc = "load_model"
    /\ preproc' = LoadModel(artifact_file).preproc
    /\ model' = LoadModel(artifact_file).model
    /\ pc' = "serving"
    /\ UNCHANGED <<data_file, artifact_file, tie, products_data, req, rank>>

\* Line 128: a request arrives and its handler waits for the body.
Arrive(r, data) ==
    /\ pc = "serving"
    /\ req[r].at = "idle"
    /\ req' = [req EXCEPT ![r] = [at |-> "awaiting", data |-> data]]
    /\ UNCHANGED <<pc, data_file, artifact_file, tie, products_data, preproc, model, rank>>

\* Defect: the flattening loop takes the offers out of the shared catalog.
chat_Consuming(r) ==
    /\ pc = "serving"
    /\ req[r].at = "awaiting"
    /\ \E out \in {ChatBody(products_data, preproc, model, tie, req[r].data)} :
          req' = [req EXCEPT ![r] = [at |-> "done", data |-> req[r].data,
                                     response |-> out.response,
                                     calls |-> out.calls]]
    /\ products_data' = [i \in 1..Len(products_data) |->
                            [product_name |-> products_data[i].product_name]]
    /\ UNCHANGED <<pc, data_file, artifact_file, tie, preproc, model, rank>>

\* Lines 129-199: the handler has no other await, so the event loop runs the
\* rest of it without interleaving another handler.  It assigns no global.
chat(r) ==
    /\ pc = "serving"
    /\ req[r].at = "awaiting"
    /\ \E out \in {ChatBody(products_data, preproc, model, tie, req[r].data)} :
          req' = [req EXCEPT ![r] = [at |-> "done", data |-> req[r].data,
                                     response |-> out.response,
                                     calls |-> out.calls]]
    /\ UNCHANGED <<pc, data_file, artifact_file, tie, products_data, preproc, model, rank>>

\* The response is sent; the handler's locals are gone.
Respond(r) ==
    /\ pc = "serving"
    /\ req[r].at = "done"
    /\ req' = [req EXCEPT ![r] = Idle]
    /\ UNCHANGED <<pc, data_file, artifact_file, tie, products_data, preproc, model, rank>>

Next ==
    \/ StartLoadDataset
    \/ StartLoadModel
    \/ \E r \in Reqs, data \in Bodies : Arrive(r, data)
    \/ \E r \in Reqs : chat(r)
    \/ \E r \in Reqs : Respond(r)

Spec == Init /\ [][Next]_vars

\* The module-level statements of lines 48-60 run to completion at import.
SpecLive == Spec /\ WF_vars(StartLoadDataset) /\ WF_vars(StartLoadModel)

(***************************************************************************)
(* infer_topk as a function of its arguments: a DataFrame of distinct      *)
(* offer rows, k, the globals preproc and model, and the build's order of  *)
(* equal scores; the function is called MaxCalls times on the same         *)
(* DataFrame object.                                                       *)
(***************************************************************************)
Row(o) == OfferRow([product_name |-> NameTv], o)
RankRows == {Row(o) : o \in Offers}

Frames(n) ==
    {df \in [1..n -> RankRows] : \A i, j \in 1..n : df[i] = df[j] => i = j}

MaxK == MaxRows + 1

Strategies ==
    {[preproc |-> None, model |-> None],
     [preproc |-> None, model |-> M1],
     [preproc |-> P1, model |-> M0],
     [preproc |-> P1, model |-> M1]}

InitRank ==
    /\ pc = "rank"
    /\ data_file = Unset
    /\ artifact_file = Unset
    /\ products_data = Unset
    /\ req = <<>>
    /\ \E s \in Strategies : preproc = s.preproc /\ model = s.model
    /\ \E n \in 1..MaxRows : \E df \in Frames(n) : \E k \in 0..MaxK :
          rank = [input |-> df, df |-> df, k |-> k, results |-> <<>>]
    /\ tie \in TieOrders(Len(rank.input))

\* topk = infer_topk(df, k): df is left as the call mutated it.
RankCall ==
    /\ pc = "rank"
    /\ Len(rank.results) < MaxCalls
    /\ \E out \in {infer_topk(rank.df, rank.k, preproc, model, tie)} :
          rank' = [rank EXCEPT !.df = out.df, !.results = Append(@, out)]
    /\ UNCHANGED <<pc, data_file, artifact_file, tie, products_data, preproc, model, req>>

NextRank == RankCall

SpecRank == InitRank /\ [][NextRank]_vars

(***************************************************************************)
(* Properties of infer_topk, under SpecRank.                               *)
(***************************************************************************)
Called == pc = "rank" /\ rank.results # <<>>
Fallback == UseFallback(preproc, model)
Sellers(f) == {f[i].seller_name : i \in 1..Len(f)}
Missing(f, col) == \E i \in 1..Len(f) : f[i][col] = NaN

\* C1: for every non-empty DataFrame and every k >= 0, under either
\* strategy, infer_topk returns exactly min(k, len(rows)) rows, each a scored
\* row of the DataFrame and no row twice, in non-increasing order of score,
\* and every returned row's score is at least the score of every row that
\* was not returned.
C1_TopKRowsInOrder ==
    pc = "rank" =>
        \A c \in 1..Len(rank.results) :
            LET out == rank.results[c]
                n == Len(rank.input)
                top == out.top
            IN  /\ Len(top) = (IF rank.k < n THEN rank.k ELSE n)
                /\ \A i \in 1..Len(top) : \E j \in 1..n : top[i] = out.df[j]
                /\ \A i, j \in 1..Len(top) :
                      top[i].seller_name = top[j].seller_name => i = j
                /\ \A i, j \in 1..Len(top) :
                      i < j => ~ScoreLess(top[i].pred_score, top[j].pred_score)
                /\ \A i \in 1..Len(top), j \in 1..n :
                      out.df[j].seller_name \notin Sellers(top)
                          => ~ScoreLess(top[i].pred_score, out.df[j].pred_score)

\* A call that cut three rows of different scores down to two.
C1_Witness ==
    /\ Called
    /\ Len(rank.input) = 3
    /\ Len(rank.results[1].top) = 2
    /\ ScoreLess(rank.results[1].top[2].pred_score, rank.results[1].top[1].pred_score)
    /\ \E j \in 1..3 :
          ScoreLess(rank.results[1].df[j].pred_score, rank.results[1].top[2].pred_score)

\* The place of input row i in the returned frame, 0 when it was cut.
PlaceIn(top, row) ==
    IF row.seller_name \in Sellers(top)
    THEN CHOOSE q \in 1..Len(top) : top[q].seller_name = row.seller_name
    ELSE 0

\* C2: the ranking is a stable sort: of two rows with equal scores, the one
\* earlier in the input is earlier in the result, and when the tie straddles
\* the cut at k the earlier row is the one kept.
C2_StableSort ==
    pc = "rank" =>
        \A c \in 1..Len(rank.results) :
            LET out == rank.results[c]
            IN  \A i, j \in 1..Len(out.df) :
                   (i < j /\ ScoreEq(out.df[i].pred_score, out.df[j].pred_score)
                          /\ PlaceIn(out.top, out.df[j]) # 0)
                   => /\ PlaceIn(out.top, out.df[i]) # 0
                      /\ PlaceIn(out.top, out.df[i]) < PlaceIn(out.top, out.df[j])

\* Prices and delivery times as the fallback scores them.
PriceOf(row) == IF row.price = NaN THEN 1 ELSE row.price
DeliveryOf(row) == IF row.delivery_in_days = NaN THEN 3 ELSE row.delivery_in_days

\* The score of a row scored alone.
Alone(row) == FallbackScore(<<row>>)[1].pred_score

\* Whether B raises a batch maximum that A's score depends on.
Exceeds(A, B) ==
    \/ PriceOf(B) > PriceOf(A) /\ PriceOf(A) > 0
    \/ DeliveryOf(B) > DeliveryOf(A) /\ DeliveryOf(A) > 0

\* C6 as stated: under the fallback strategy, whenever B's price or
\* delivery_in_days differs from A's, the score of A in the batch {A, B}
\* differs from the score of A scored alone.
C6_DiffersWheneverBDiffers ==
    (Called /\ Fallback /\ Len(rank.input) = 2) =>
        \A a \in 1..2 :
            LET A == rank.input[a]
                B == rank.input[3 - a]
            IN  (B.price # A.price \/ B.delivery_in_days # A.delivery_in_days)
                => ~ScoreEq(rank.results[1].df[a].pred_score, Alone(A))

\* C6, amended: under the fallback strategy, with non-negative prices and
\* delivery times and absent ones replaced by 1 and 3, the score of A in the
\* batch {A, B} is strictly greater than the score of A scored alone when
\* B's price exceeds A's positive price or B's delivery time exceeds A's
\* positive delivery time, and is equal to it otherwise.
C6_DiffersWhenBExceeds ==
    (Called /\ Fallback /\ Len(rank.input) = 2) =>
        \A a \in 1..2 :
            LET A == rank.input[a]
                B == rank.input[3 - a]
                together == rank.results[1].df[a].pred_score
            IN  IF Exceeds(A, B)
                THEN ScoreLess(Alone(A), together)
                ELSE ScoreEq(Alone(A), together)

\* A batch {A, B} scored where B is dearer than A, and one where B differs
\* from A without exceeding it.
C6_Witness ==
    /\ Called /\ Fallback /\ Len(rank.input) = 2
    /\ Exceeds(rank.input[1], rank.input[2])
    /\ ~Exceeds(rank.input[2], rank.input[1])
    /\ rank.input[2].price # rank.input[1].price

\* The DataFrame with the missing cells of one column replaced by v.
With(df, col, v) ==
    [i \in 1..Len(df) |-> IF df[i][col] = NaN THEN [df[i] EXCEPT ![col] = v] ELSE df[i]]

Scores(df) == [i \in 1..Len(df) |-> df[i].pred_score]

SameScores(s, t) ==
    Len(s) = Len(t) /\ \A i \in 1..Len(s) : ScoreEq(s[i], t[i])

C8_SecondCallSame ==
    pc = "rank" =>
        \A c \in 1..Len(rank.results) :
            /\ rank.results[c].top = rank.results[1].top
            /\ rank.results[c].df = rank.results[1].df
            /\ SameScores(Scores(rank.results[c].df), Scores(rank.results[1].df))

\* Two calls made under the fallback on a DataFrame that had missing cells,
\* and the first call changed the DataFrame.
C8_Witness ==
    /\ pc = "rank" /\ Len(rank.results) >= 2 /\ Fallback
    /\ Missing(rank.input, "price")
    /\ Len(rank.input) >= 2
    /\ rank.df # rank.input

Milli(n) == [num |-> Big[n], den |-> Big[1000]]

\* C10: under the fallback strategy the batch [{price 1000, rating 4.5,
\* delivery 2}, {price 500, rating 3.0, delivery 5}] with k = 1 returns the
\* first offer; its score is about 0.45 and strictly greater than the
\* second's, which is about 0.38.
C10_ExampleFirstOfferWins ==
    (Called /\ Fallback /\ rank.input = <<Row(O1), Row(O2)>> /\ rank.k = 1) =>
        LET out == rank.results[1]
        IN  /\ Len(out.top) = 1
            /\ out.top[1].seller_name = O1.seller_name
            /\ out.top[1] = out.df[1]
            /\ ScoreLess(out.df[2].pred_score, out.df[1].pred_score)
            /\ ScoreLess(Milli(449), out.df[1].pred_score)
            /\ ScoreLess(out.df[1].pred_score, Milli(451))
            /\ ScoreLess(Milli(379), out.df[2].pred_score)
            /\ ScoreLess(out.df[2].pred_score, Milli(381))

\* The example has been ranked.
C10_Witness ==
    Called /\ Fallback /\ rank.input = <<Row(O1), Row(O2)>> /\ rank.k = 1

(***************************************************************************)
(* Properties of the service, under Spec and SpecLive.                     *)
(***************************************************************************)
Done(r) == req[r].at = "done"
Outcome(r) == req[r].response.bot[1]
Called_(r, what) == \E c \in 1..Len(req[r].calls) : req[r].calls[c][1] = what

\* The product find_product_by_name returned to request r.
Matched(r) == req[r].calls # <<>> /\ req[r].calls[1][2] # NoProduct
Product(r) == req[r].calls[1][2]

\* No variant of the product holds an offer.
ZeroOffers(product) ==
    \/ "variants" \notin DOMAIN product
    \/ \A v \in 1..Len(product.variants) :
          \/ "offers" \notin DOMAIN product.variants[v]
          \/ product.variants[v].offers = <<>>

\* C3: a request whose matched product has no offer at all (no variants
\* key, no variants, only variants without offers) is answered with the
\* "no offers" outcome and an empty products list, without a call of
\* infer_topk; and infer_topk is only ever called with at least one row.
C3_NoOffersOutcome ==
    \A r \in Reqs : Done(r) =>
        /\ (Matched(r) /\ ZeroOffers(Product(r)))
              => /\ req[r].response =
                        [bot |-> <<"no_offers", Product(r).product_name>>,
                         products |-> <<>>]
                 /\ ~Called_(r, "infer_topk")
        /\ \A c \in 1..Len(req[r].calls) :
              req[r].calls[c][1] = "infer_topk" => req[r].calls[c][2] >= 1

\* A request answered "no offers" for a product whose variants hold no
\* offer, and one for a product without variants.
C3_Witness ==
    \E r, q \in Reqs :
        /\ Done(r) /\ Outcome(r) = "no_offers"
        /\ "variants" \in DOMAIN Product(r) /\ Product(r).variants # <<>>
        /\ Done(q) /\ Outcome(q) = "no_offers"
        /\ "variants" \notin DOMAIN Product(q)

\* No product name of the catalog is within the cutoff of the query.
NoCloseName(products, word) ==
    \A i \in 1..Len(products) :
        LET q == ratio(products[i].product_name, word)
        IN  10 * q[1] < 4 * q[2]

\* C4: a request for which find_product_by_name returns nothing (no name
\* within the cutoff, or an empty catalog) is answered with the "not found"
\* outcome and an empty products list, and runs neither the flattening nor
\* infer_topk; "not found" is given to no request that matched a product, so
\* it is never the "no offers" outcome.
C4_NotFoundOutcome ==
    \A r \in Reqs : Done(r) =>
        LET user_input == strip(Get(req[r].data, "message", <<>>))
            unmatched == req[r].calls # <<>> /\ req[r].calls[1][2] = NoProduct
        IN  /\ (user_input # <<>> /\ NoCloseName(products_data, user_input))
                  => unmatched
            /\ unmatched
                  => /\ req[r].response =
                            [bot |-> <<"not_found", user_input>>, products |-> <<>>]
                     /\ Len(req[r].calls) = 1
            /\ Outcome(r) = "not_found" => unmatched
            /\ Outcome(r) = "no_offers" => Matched(r)

\* A request answered "not found" against a catalog that has products, and
\* one answered "not found" against an empty catalog.
C4_Witness ==
    \E r \in Reqs :
        /\ Done(r) /\ Outcome(r) = "not_found"
        /\ products_data # <<>>
        /\ \E q \in Reqs : Done(q) /\ Outcome(q) = "top3"

\* The artifact loads and holds a preprocessor and a regressor.
ArtifactValid ==
    /\ artifact_file # Unreadable
    /\ "preproc" \in DOMAIN artifact_file
    /\ "model" \in DOMAIN artifact_file
    /\ artifact_file.preproc # None
    /\ artifact_file.model # None

\* C5: start-up completes whatever the artifact is; once serving, infer_topk
\* takes the learned branch exactly when the artifact loaded with both a
\* preprocessor and a regressor (which are then the artifact's) and the
\* fallback branch otherwise; and no step after start-up changes preproc or
\* model.
C5_StrategyChosenAtStartup ==
    /\ <>(pc = "serving")
    /\ [](pc = "serving" =>
             /\ UseFallback(preproc, model) <=> ~ArtifactValid
             /\ ArtifactValid =>
                   preproc = artifact_file.preproc /\ model = artifact_file.model)
    /\ [][pc = "serving" =>
             pc' = "serving" /\ preproc' = preproc /\ model' = model]_vars

\* Serving with the learned strategy, a request ranked and a second one
\* arrived after it.
C5_Witness ==
    /\ pc = "serving" /\ ArtifactValid /\ ~UseFallback(preproc, model)
    /\ \E r, q \in Reqs :
          /\ Done(r) /\ Outcome(r) = "top3"
          /\ req[q].at = "awaiting"

\* C9: under every interleaving of requests, the catalog and the strategy
\* are what start-up loaded, and the response of every request is the one
\* the handler gives for its body when run alone on them.
C9_RequestsIsolated ==
    pc = "serving" =>
        /\ products_data = load_dataset(data_file)
        /\ preproc = LoadModel(artifact_file).preproc
        /\ model = LoadModel(artifact_file).model
        /\ \A r \in Reqs : Done(r) =>
              req[r].response =
                  ChatBody(load_dataset(data_file),
                           LoadModel(artifact_file).preproc,
                           LoadModel(artifact_file).model,
                           tie, req[r].data).response

\* Two requests in flight at once, answered with different outcomes.
C9_Witness ==
    /\ pc = "serving"
    /\ Done(1) /\ Outcome(1) = "top3"
    /\ Done(2) /\ Outcome(2) = "no_offers"

====
